---- MODULE Spec2Model ----
(***************************************************************************)
(* Model of the three batch utilities under src/scripts:                   *)
(*   sanitize_csv.cjs           (the sanitizer)                            *)
(*   convert_to_fb_catalog.cjs  (the catalog converter)                    *)
(*   cloud_valuation.cjs        (the valuation enricher)                   *)
(*                                                                         *)
(* Text is a sequence of symbols.  The characters the code tells apart     *)
(* (comma, double quote, pipe, CR, LF, blank, dot, digits, ...) are one    *)
(* symbol each; every other symbol is one ordinary character, or, for a    *)
(* column name or a string literal of the code, one run of ordinary        *)
(* characters written as a single symbol.                                  *)
(***************************************************************************)
EXTENDS Naturals, Integers, Sequences, FiniteSets, TLC

VARIABLES
    \* the parsers applied to one line
    p_line, p_done, p_san, p_cat, p_val,
    \* sanitize_csv.cjs
    san_pc, san_raw, san_ndest, san_lines, san_sensitiveIndices,
    san_sanitized, san_output, san_written,
    \* convert_to_fb_catalog.cjs
    cat_pc, cat_raw, cat_lines, cat_colIdx, cat_i, cat_outputRows,
    cat_skipped, cat_csvContent, cat_outputFile, cat_publicCopy,
    \* cloud_valuation.cjs
    val_pc, val_key, val_exists, val_raw, val_headers, val_allHeaders,
    val_rows, val_i, val_vals, val_results, val_pending, val_trace,
    val_outputFile, val_writes

vars_parse == <<p_line, p_done, p_san, p_cat, p_val>>

vars_san == <<san_pc, san_raw, san_ndest, san_lines, san_sensitiveIndices,
              san_sanitized, san_output, san_written>>

vars_cat == <<cat_pc, cat_raw, cat_lines, cat_colIdx, cat_i, cat_outputRows,
              cat_skipped, cat_csvContent, cat_outputFile, cat_publicCopy>>

vars_val == <<val_pc, val_key, val_exists, val_raw, val_headers, val_allHeaders,
              val_rows, val_i, val_vals, val_results, val_pending, val_trace,
              val_outputFile, val_writes>>

vars == <<vars_parse, vars_san, vars_cat, vars_val>>

Quote == "\""
Comma == ","
CR == "\r"
LF == "\n"
SP == " "
TAB == "\t"

\* The characters String.prototype.trim removes at both ends.
WhiteSpace == {SP, TAB, CR, LF}

\* Every text over alphabet A of at most n symbols.
Texts(A, n) == UNION {[1..k -> A] : k \in 0..n}

RECURSIVE TrimLeft(_)
TrimLeft(s) ==
    IF s # <<>> /\ Head(s) \in WhiteSpace THEN TrimLeft(Tail(s)) ELSE s

RECURSIVE TrimRight(_)
TrimRight(s) ==
    IF s # <<>> /\ s[Len(s)] \in WhiteSpace
    THEN TrimRight(SubSeq(s, 1, Len(s) - 1))
    ELSE s

\* String.prototype.trim
trim(s) == TrimRight(TrimLeft(s))

\* s.replace(/"/g, '')
removeQuotes(s) == SelectSeq(s, LAMBDA c : c # Quote)

\* The smallest element of a set of numbers.
Min(S) == CHOOSE i \in S : \A j \in S : i <= j

\* The elements of a set S of numbers of 1..n, in ascending order.
Ascending(S, n) == SelectSeq([i \in 1..n |-> i], LAMBDA i : i \in S)

\* The k-th smallest element of a set of numbers.
Nth(S, k) == CHOOSE i \in S : Cardinality({j \in S : j < i}) = k - 1

\* String.prototype.split with a one-character separator: the pieces
\* between consecutive separators.
split(s, sep) ==
    LET at == Ascending({i \in 1..Len(s) : s[i] = sep}, Len(s))
        n == Len(at)
        bound(k) == IF k = 0 THEN 0 ELSE IF k = n + 1 THEN Len(s) + 1 ELSE at[k]
    IN [k \in 1..(n + 1) |-> SubSeq(s, bound(k - 1) + 1, bound(k) - 1)]

\* Array.prototype.join with separator text sep.
RECURSIVE join(_, _)
join(parts, sep) ==
    IF parts = <<>> THEN <<>>
    ELSE IF Len(parts) = 1 THEN parts[1]
    ELSE LET h == Len(parts) \div 2
         IN join(SubSeq(parts, 1, h), sep) \o sep
            \o join(SubSeq(parts, h + 1, Len(parts)), sep)

(***************************************************************************)
(* The three line parsers.                                                 *)
(***************************************************************************)

\* sanitize_csv.cjs parseCSVLine: the loop over the characters of the line,
\* from position i.  A quote toggles inQuotes and is kept in the field.  The
\* characters before the next quote or comma all take the last branch, and
\* are added to current in one step.
RECURSIVE San_parseLoop(_, _, _, _, _)
San_parseLoop(line, i, current, inQuotes, result) ==
    LET special == {j \in i..Len(line) : line[j] \in {Quote, Comma}}
    IN IF special = {} THEN Append(result, current \o SubSeq(line, i, Len(line)))
       ELSE LET j == Min(special)
                ch == line[j]
                cur == current \o SubSeq(line, i, j - 1)
            IN IF ch = Quote
               THEN San_parseLoop(line, j + 1, Append(cur, ch), ~inQuotes, result)
               ELSE IF ~inQuotes
               THEN San_parseLoop(line, j + 1, <<>>, inQuotes, Append(result, cur))
               ELSE San_parseLoop(line, j + 1, Append(cur, ch), inQuotes, result)

\* A parser that splits at every comma, quoted or not.
San_parseCSVLine_naive(line) == split(line, Comma)

San_parseCSVLine(line) == San_parseLoop(line, 1, <<>>, FALSE, <<>>)

\* convert_to_fb_catalog.cjs parseCSVLine, the loop from position i: a quote
\* toggles inQuotes and is dropped; every field is trimmed when it is pushed.
\* The characters before the next quote or comma are added in one step.
RECURSIVE Cat_parseLoop(_, _, _, _, _)
Cat_parseLoop(line, i, current, inQuotes, result) ==
    LET special == {j \in i..Len(line) : line[j] \in {Quote, Comma}}
    IN IF special = {}
       THEN Append(result, trim(current \o SubSeq(line, i, Len(line))))
       ELSE LET j == Min(special)
                ch == line[j]
                cur == current \o SubSeq(line, i, j - 1)
            IN IF ch = Quote
               THEN Cat_parseLoop(line, j + 1, cur, ~inQuotes, result)
               ELSE IF ~inQuotes
               THEN Cat_parseLoop(line, j + 1, <<>>, inQuotes,
                                  Append(result, trim(cur)))
               ELSE Cat_parseLoop(line, j + 1, Append(cur, ch), inQuotes, result)

Cat_parseCSVLine(line) == Cat_parseLoop(line, 1, <<>>, FALSE, <<>>)

\* cloud_valuation.cjs parseCSV, the row callback: line.split(',').
Val_rowParts(line) == split(line, Comma)

\* cloud_valuation.cjs parseCSV: parts[i].replace(/"/g, '').trim()
Val_clean(part) == trim(removeQuotes(part))

(***************************************************************************)
(* Specification SpecParse: the three parsers applied to one line.         *)
(***************************************************************************)
MaxLineLen == 4

ParseChars == {"a", Comma, Quote, SP}

StartParse ==
    /\ p_line \in Texts(ParseChars, MaxLineLen)
    /\ p_done = {}
    /\ p_san = <<>>
    /\ p_cat = <<>>
    /\ p_val = <<>>

IdleParse ==
    /\ p_line = <<>>
    /\ p_done = {"san", "cat", "val"}
    /\ p_san = <<>>
    /\ p_cat = <<>>
    /\ p_val = <<>>

ParseSanitizer ==
    /\ "san" \notin p_done
    /\ p_san' = San_parseCSVLine(p_line)
    /\ p_done' = p_done \cup {"san"}
    /\ UNCHANGED <<p_line, p_cat, p_val, vars_san, vars_cat, vars_val>>

ParseCatalog ==
    /\ "cat" \notin p_done
    /\ p_cat' = Cat_parseCSVLine(p_line)
    /\ p_done' = p_done \cup {"cat"}
    /\ UNCHANGED <<p_line, p_san, p_val, vars_san, vars_cat, vars_val>>

ParseValuation ==
    /\ "val" \notin p_done
    /\ p_val' = Val_rowParts(p_line)
    /\ p_done' = p_done \cup {"val"}
    /\ UNCHANGED <<p_line, p_san, p_cat, vars_san, vars_cat, vars_val>>

NextParse == ParseSanitizer \/ ParseCatalog \/ ParseValuation

\* Number of occurrences of symbol c in text s.
Count(s, c) == Cardinality({i \in 1..Len(s) : s[i] = c})

\* The commas of the line that lie outside double-quoted segments: those
\* preceded by an even number of quote characters.
UnquotedCommas(line) ==
    Cardinality({i \in 1..Len(line) :
        /\ line[i] = Comma
        /\ Cardinality({j \in 1..(i - 1) : line[j] = Quote}) % 2 = 0})

\* Total number of commas held inside the fields of a parse result.
RECURSIVE CommasIn(_)
CommasIn(fields) ==
    IF fields = <<>> THEN 0
    ELSE Count(Head(fields), Comma) + CommasIn(Tail(fields))

\* A parse result is right for the line: N unquoted commas give N+1 fields,
\* and every quoted comma is still inside a field.
QuoteAware(line, fields) ==
    /\ Len(fields) = UnquotedCommas(line) + 1
    /\ CommasIn(fields) = Count(line, Comma) - UnquotedCommas(line)

\* C6 (as stated): all three parsers produce N+1 fields for a line with N
\* commas outside quoted segments, and no quoted comma splits a field.
C6_AllThreeQuoteAware ==
    /\ "san" \in p_done => QuoteAware(p_line, p_san)
    /\ "cat" \in p_done => QuoteAware(p_line, p_cat)
    /\ "val" \in p_done => QuoteAware(p_line, p_val)

\* C6 (amended): the sanitizer's and the catalog converter's parseCSVLine
\* produce N+1 fields for N commas outside quoted segments and keep every
\* quoted comma inside a field; the valuation enricher's row splitting
\* splits at every comma, quoted or not: a line with K commas in all gives
\* K+1 parts, none of which holds a comma.
C6_ParsersAmended ==
    /\ "san" \in p_done => QuoteAware(p_line, p_san)
    /\ "cat" \in p_done => QuoteAware(p_line, p_cat)
    /\ "val" \in p_done =>
          /\ Len(p_val) = Count(p_line, Comma) + 1
          /\ CommasIn(p_val) = 0

\* A line with a quoted comma has been parsed by all three tools.
C6_Witness ==
    /\ p_done = {"san", "cat", "val"}
    /\ UnquotedCommas(p_line) < Count(p_line, Comma)
    /\ UnquotedCommas(p_line) > 0

(***************************************************************************)
(* sanitize_csv.cjs                                                        *)
(***************************************************************************)

\* String.prototype.toLowerCase on one character.
LowerChar(c) ==
    CASE c = "A" -> "a" [] c = "C" -> "c" [] c = "E" -> "e" [] c = "H" -> "h"
      [] c = "L" -> "l" [] c = "O" -> "o" [] c = "S" -> "s" [] c = "T" -> "t"
      [] c = "V" -> "v" [] c = "W" -> "w"
      [] OTHER -> c

toLowerCase(s) == [i \in 1..Len(s) |-> LowerChar(s[i])]

SENSITIVE_COLUMNS ==
    { <<"c", "o", "s", "t">>,
      <<"t", "o", "t", "a", "l", " ", "c", "o", "s", "t">>,
      <<"w", "h", "o", "l", "e", "s", "a", "l", "e">> }

\* The redaction token, with its double quotes.
ZERO == <<Quote, "Z", "E", "R", "O", Quote>>

\* A header name compared as written: no lower-casing.
San_colName_caseSensitive(col) == trim(removeQuotes(col))

\* colName = col.replace(/"/g, '').trim().toLowerCase()
San_colName(col) == toLowerCase(trim(removeQuotes(col)))

\* headerCols.forEach((col, idx) => ... sensitiveIndices.push(idx)): the
\* indices (from 0, as in the code) of the sensitive header columns, in order.
RECURSIVE San_collect(_, _, _)
San_collect(headerCols, idx, acc) ==
    IF idx >= Len(headerCols) THEN acc
    ELSE San_collect(headerCols, idx + 1,
            IF San_colName(headerCols[idx + 1]) \in SENSITIVE_COLUMNS
            THEN Append(acc, idx) ELSE acc)

San_sensitive(headerLine) == San_collect(San_parseCSVLine(headerLine), 0, <<>>)

\* sensitiveIndices.forEach(idx => { if (cols[idx] !== undefined) cols[idx] = '"ZERO"' })
RECURSIVE San_redact(_, _)
San_redact(cols, indices) ==
    IF indices = <<>> THEN cols
    ELSE LET idx == Head(indices) IN
         San_redact(IF idx + 1 <= Len(cols)
                    THEN [cols EXCEPT ![idx + 1] = ZERO] ELSE cols,
                    Tail(indices))

\* A map callback that also rewrites the header line.
San_mapLine_noHeaderGuard(line, lineIdx, indices) ==
    IF trim(line) = <<>> THEN line
    ELSE join(San_redact(San_parseCSVLine(line), indices), <<Comma>>)

\* The callback of lines.map: blank lines and the header (lineIdx 0) are
\* returned as they are; any other line is parsed, redacted and rejoined.
San_mapLine(line, lineIdx, indices) ==
    IF trim(line) = <<>> \/ lineIdx = 0 THEN line
    ELSE join(San_redact(San_parseCSVLine(line), indices), <<Comma>>)

\* Input files: a header line, at most MaxSanRows data lines, every line
\* ended the same way (LF or CRLF), the last one with or without its ending.
MaxSanRows == 2
MaxDests == 2

SanHeaders ==
    { <<"V", Comma, "C", "o", "s", "t">>,
      <<Quote, "C", "O", "S", "T", Quote, Comma, "V">>,
      <<"V", Comma, SP, "T", "o", "t", "a", "l", SP, "C", "o", "s", "t", SP,
        Comma, "w", "h", "o", "l", "e", "s", "a", "l", "e">>,
      <<"V", Comma, "C", "o", "s", "t", "s">> }

SanDataLines ==
    { <<"7", Comma, "8">>,
      <<Quote, "a", Comma, "b", Quote, Comma, "8">>,
      <<"7">>,
      <<>>,
      <<"7", Comma, "8", Comma, "9">>,
      <<"7", Comma, Quote, "8">> }

LineEndings == { <<LF>>, <<CR, LF>> }

SanInputs ==
    { join(<<h>> \o rows, eol) \o (IF last THEN eol ELSE <<>>) :
        h \in SanHeaders,
        rows \in UNION {[1..n -> SanDataLines] : n \in 0..MaxSanRows},
        eol \in LineEndings,
        last \in BOOLEAN }

StartSan ==
    /\ san_pc = "read"
    /\ san_raw \in SanInputs
    /\ san_ndest \in 1..MaxDests
    /\ san_lines = <<>>
    /\ san_sensitiveIndices = <<>>
    /\ san_sanitized = <<>>
    /\ san_output = <<>>
    /\ san_written = <<>>

IdleSan ==
    /\ san_pc = "idle"
    /\ san_raw = <<>>
    /\ san_ndest = 0
    /\ san_lines = <<>>
    /\ san_sensitiveIndices = <<>>
    /\ san_sanitized = <<>>
    /\ san_output = <<>>
    /\ san_written = <<>>

\* const lines = raw.split('\n')
SanRead ==
    /\ san_pc = "read"
    /\ san_lines' = split(san_raw, LF)
    /\ san_pc' = "header"
    /\ UNCHANGED <<san_raw, san_ndest, san_sensitiveIndices, san_sanitized,
                   san_output, san_written, vars_parse, vars_cat, vars_val>>

\* headerCols = parseCSVLine(lines[0]); sensitiveIndices filled.
SanHeader ==
    /\ san_pc = "header"
    /\ san_sensitiveIndices' = San_sensitive(san_lines[1])
    /\ san_pc' = "map"
    /\ UNCHANGED <<san_raw, san_ndest, san_lines, san_sanitized, san_output,
                   san_written, vars_parse, vars_cat, vars_val>>

\* One call of the lines.map callback, for line number Len(san_sanitized).
SanMapLine ==
    /\ san_pc = "map"
    /\ Len(san_sanitized) < Len(san_lines)
    /\ LET lineIdx == Len(san_sanitized) IN
       san_sanitized' = Append(san_sanitized,
            San_mapLine(san_lines[lineIdx + 1], lineIdx, san_sensitiveIndices))
    /\ UNCHANGED <<san_pc, san_raw, san_ndest, san_lines, san_sensitiveIndices,
                   san_output, san_written, vars_parse, vars_cat, vars_val>>

\* output = sanitized.join('\r\n')
SanJoin ==
    /\ san_pc = "map"
    /\ Len(san_sanitized) = Len(san_lines)
    /\ san_output' = join(san_sanitized, <<CR, LF>>)
    /\ san_pc' = "write"
    /\ UNCHANGED <<san_raw, san_ndest, san_lines, san_sensitiveIndices,
                   san_sanitized, san_written, vars_parse, vars_cat, vars_val>>

\* for (const dest of destFiles) fs.writeFileSync(dest, output)
SanWrite ==
    /\ san_pc = "write"
    /\ Len(san_written) < san_ndest
    /\ san_written' = Append(san_written, san_output)
    /\ UNCHANGED <<san_pc, san_raw, san_ndest, san_lines, san_sensitiveIndices,
                   san_sanitized, san_output, vars_parse, vars_cat, vars_val>>

\* process.exit(0)
SanExit ==
    /\ san_pc = "write"
    /\ Len(san_written) = san_ndest
    /\ san_pc' = "done"
    /\ UNCHANGED <<san_raw, san_ndest, san_lines, san_sensitiveIndices,
                   san_sanitized, san_output, san_written, vars_parse, vars_cat, vars_val>>

NextSan == SanRead \/ SanHeader \/ SanMapLine \/ SanJoin \/ SanWrite \/ SanExit

\* The positions of the commas of a line that lie outside quoted segments,
\* in ascending order.
Cuts(line) ==
    Ascending({i \in 1..Len(line) :
                 /\ line[i] = Comma
                 /\ Cardinality({j \in 1..(i - 1) : line[j] = Quote}) % 2 = 0},
              Len(line))

\* The fields of a line: the text between consecutive unquoted commas.
FieldsOf(line) ==
    LET cuts == Cuts(line)
        n == Len(cuts)
        bound(k) == IF k = 0 THEN 0 ELSE IF k = n + 1 THEN Len(line) + 1
                    ELSE cuts[k]
    IN [k \in 1..(n + 1) |-> SubSeq(line, bound(k - 1) + 1, bound(k) - 1)]

\* The lines of a text whose lines are separated by LF or CRLF.
SeparatedLines(text) ==
    LET ps == split(text, LF)
    IN [k \in 1..Len(ps) |->
          IF k < Len(ps) /\ ps[k] # <<>> /\ ps[k][Len(ps[k])] = CR
          THEN SubSeq(ps[k], 1, Len(ps[k]) - 1)
          ELSE ps[k]]

\* The columns (from 1) of a header line whose name, quotes removed, trimmed
\* and lower-cased, is a sensitive one.
SensitiveCols(header) ==
    LET names == FieldsOf(header)
    IN {c \in 1..Len(names) :
          toLowerCase(trim(removeQuotes(names[c]))) \in SENSITIVE_COLUMNS}

Written == {san_written[d] : d \in 1..Len(san_written)}

\* C2: in every written destination, every non-blank data line that has a
\* field at the index of a sensitive header column carries exactly the
\* token "ZERO" at that index.
C2_SensitiveRedacted ==
    \A w \in Written :
        LET in == split(san_raw, LF)
            out == SeparatedLines(w)
        IN \A k \in 2..Len(in) :
              trim(in[k]) # <<>> =>
                \A c \in SensitiveCols(in[1]) :
                    c <= Len(FieldsOf(in[k])) =>
                        /\ k <= Len(out)
                        /\ c <= Len(FieldsOf(out[k]))
                        /\ FieldsOf(out[k])[c] = ZERO

\* A destination has been written for an input whose header names a
\* sensitive column in upper case and whose data line holds a value there.
C2_Witness ==
    /\ san_pc = "done"
    /\ Written # {}
    /\ LET in == split(san_raw, LF)
       IN /\ \E c \in SensitiveCols(in[1]) :
                /\ San_colName_caseSensitive(FieldsOf(in[1])[c]) \notin SENSITIVE_COLUMNS
                /\ \E k \in 2..Len(in) :
                      /\ c <= Len(FieldsOf(in[k]))
                      /\ FieldsOf(in[k])[c] \notin {<<>>, ZERO}

C8_CRLFNormalized ==
    \A w \in Written :
        LET logical == SeparatedLines(san_raw)
            indices == San_sensitive(logical[1])
        IN w = join([k \in 1..Len(logical) |->
                        San_mapLine(logical[k], k - 1, indices)],
                    <<CR, LF>>)

(***************************************************************************)
(* convert_to_fb_catalog.cjs                                               *)
(***************************************************************************)
Pipe == "|"
Dot == "."
Star == "*"
Semicolon == ";"

Digits == {"0", "1", "2", "3", "4", "5", "6", "7", "8", "9"}

DigitValue(c) ==
    CASE c = "0" -> 0 [] c = "1" -> 1 [] c = "2" -> 2 [] c = "3" -> 3
      [] c = "4" -> 4 [] c = "5" -> 5 [] c = "6" -> 6 [] c = "7" -> 7
      [] c = "8" -> 8 [] c = "9" -> 9

DigitSymbol(n) ==
    CASE n = 0 -> "0" [] n = 1 -> "1" [] n = 2 -> "2" [] n = 3 -> "3"
      [] n = 4 -> "4" [] n = 5 -> "5" [] n = 6 -> "6" [] n = 7 -> "7"
      [] n = 8 -> "8" [] n = 9 -> "9"

\* The longest prefix of s made of symbols of S, and what follows it.
RECURSIVE TakeWhile(_, _)
TakeWhile(s, S) ==
    IF s # <<>> /\ Head(s) \in S THEN <<Head(s)>> \o TakeWhile(Tail(s), S)
    ELSE <<>>

RECURSIVE DropWhile(_, _)
DropWhile(s, S) ==
    IF s # <<>> /\ Head(s) \in S THEN DropWhile(Tail(s), S) ELSE s

\* The value of a digit string, and the digit string of a value.
RECURSIVE ToNat(_)
ToNat(d) ==
    IF d = <<>> THEN 0
    ELSE ToNat(SubSeq(d, 1, Len(d) - 1)) * 10 + DigitValue(d[Len(d)])

RECURSIVE ToDigits(_)
ToDigits(n) ==
    IF n < 10 THEN <<DigitSymbol(n)>>
    ELSE ToDigits(n \div 10) \o <<DigitSymbol(n % 10)>>

\* The number of characters of a text: a literal of the code written as one
\* symbol counts with its own length.
RECURSIVE TextLen(_)
TextLen(s) ==
    IF s = <<>> THEN 0
    ELSE IF Len(s) = 1 THEN Len(s[1])
    ELSE LET h == Len(s) \div 2
         IN TextLen(SubSeq(s, 1, h)) + TextLen(SubSeq(s, h + 1, Len(s)))

\* unquote(val): val.replace(/^"|"$/g, '').trim()
Cat_unquote(val) ==
    IF val = <<>> THEN <<>>
    ELSE LET a == IF Head(val) = Quote THEN Tail(val) ELSE val
             b == IF a # <<>> /\ a[Len(a)] = Quote
                  THEN SubSeq(a, 1, Len(a) - 1) ELSE a
         IN trim(b)

\* s.replace(/"/g, '""')
Cat_doubleQuotes(s) == join(split(s, Quote), <<Quote, Quote>>)

\* An escape that does not look for a carriage return.
Cat_csvEscape_noCR(s) ==
    IF \E i \in 1..Len(s) : s[i] \in {Comma, Quote, LF}
    THEN <<Quote>> \o Cat_doubleQuotes(s) \o <<Quote>>
    ELSE s

\* csvEscape(val); no field of a row is undefined or null.
Cat_csvEscape(s) ==
    IF \E i \in 1..Len(s) : s[i] \in {Comma, Quote, LF, CR}
    THEN <<Quote>> \o Cat_doubleQuotes(s) \o <<Quote>>
    ELSE s

\* parseFloat of a text of digits and dots: the digits before the first dot
\* and the digits between the first dot and the second; NaN if neither has a
\* digit.  A number is kept as its two digit strings.
Cat_parseFloat(s) ==
    LET int == TakeWhile(s, Digits)
        rest == SubSeq(s, Len(int) + 1, Len(s))
        frac == IF rest # <<>> /\ Head(rest) = Dot
                THEN TakeWhile(Tail(rest), Digits) ELSE <<>>
    IN [nan |-> int = <<>> /\ frac = <<>>, int |-> int, frac |-> frac]

NumberZero == [int |-> <<"0">>, frac |-> <<>>]

\* cleanPrice(val)
Cat_cleanPrice(val) ==
    IF val = <<>> THEN NumberZero
    ELSE LET num == Cat_parseFloat(SelectSeq(val, LAMBDA c : c \in Digits \cup {Dot}))
         IN IF num.nan THEN NumberZero
            ELSE [int |-> num.int, frac |-> num.frac]

\* retail > 0
Cat_positive(n) ==
    \/ \E i \in 1..Len(n.int) : n.int[i] # "0"
    \/ \E i \in 1..Len(n.frac) : n.frac[i] # "0"

\* retail.toFixed(2): two decimals, rounded on the third.
Cat_toFixed2(n) ==
    LET f == n.frac \o <<"0", "0", "0">>
        cents == ToNat(n.int) * 100 + DigitValue(f[1]) * 10 + DigitValue(f[2])
                 + (IF DigitValue(f[3]) >= 5 THEN 1 ELSE 0)
    IN ToDigits(cents \div 100) \o <<Dot>>
       \o <<DigitSymbol((cents % 100) \div 10), DigitSymbol(cents % 10)>>

\* parseInt(s): blanks skipped, an optional sign, then the leading digits.
Cat_parseInt(s) ==
    LET t == TrimLeft(s)
        neg == t # <<>> /\ Head(t) = "-"
        u == IF t # <<>> /\ Head(t) \in {"-", "+"} THEN Tail(t) ELSE t
        d == TakeWhile(u, Digits)
    IN [nan |-> d = <<>>, neg |-> neg, val |-> ToNat(d)]

\* The digits of a number with a comma before every group of three.
RECURSIVE Cat_group(_)
Cat_group(d) ==
    IF Len(d) <= 3 THEN d
    ELSE Cat_group(SubSeq(d, 1, Len(d) - 3)) \o <<Comma>>
         \o SubSeq(d, Len(d) - 2, Len(d))

\* Number.prototype.toLocaleString(), en-US.
Cat_toLocaleString(n) ==
    IF n.nan THEN <<"NaN">>
    ELSE (IF n.neg /\ n.val > 0 THEN <<"-">> ELSE <<>>) \o Cat_group(ToDigits(n.val))

\* `${parseInt(mileage).toLocaleString()} miles`
Cat_miles(mileage) == Cat_toLocaleString(Cat_parseInt(mileage)) \o <<SP, "miles">>

\* .replace(/\*\s*/g, ' | '): the blanks that follow a star go, and every
\* star becomes ' | '.
Cat_bullets(s) ==
    LET eaten(j) == s[j] \in WhiteSpace
                    /\ \E k \in 1..(j - 1) :
                          /\ s[k] = Star
                          /\ \A m \in (k + 1)..j : s[m] \in WhiteSpace
        kept == Ascending({j \in 1..Len(s) : ~eaten(j)}, Len(s))
        rest == [k \in 1..Len(kept) |-> s[kept[k]]]
    IN join(split(rest, Star), <<SP, Pipe, SP>>)

\* .replace(/\s{2,}/g, ' '): of a run of two or more blanks only the first
\* place stays, as one space; a blank on its own stays as it is.
Cat_collapse(s) ==
    LET ws(j) == j >= 1 /\ j <= Len(s) /\ s[j] \in WhiteSpace
        kept == Ascending({j \in 1..Len(s) : ~(ws(j) /\ ws(j - 1))}, Len(s))
    IN [k \in 1..Len(kept) |->
          IF ws(kept[k]) /\ ws(kept[k] + 1) THEN SP ELSE s[kept[k]]]

\* .replace(/[\r\n]+/g, ' '): every run of CR and LF becomes one space.
Cat_stripNewlines(s) ==
    LET nl(j) == j >= 1 /\ j <= Len(s) /\ s[j] \in {CR, LF}
        kept == Ascending({j \in 1..Len(s) : ~(nl(j) /\ nl(j - 1))}, Len(s))
    IN [k \in 1..Len(kept) |-> IF nl(kept[k]) THEN SP ELSE s[kept[k]]]

\* desc.substring(0, n), for a text of one-character symbols.
RECURSIVE Cat_substring(_, _)
Cat_substring(s, n) ==
    IF s = <<>> \/ Len(Head(s)) > n THEN <<>>
    ELSE <<Head(s)>> \o Cat_substring(Tail(s), n - Len(Head(s)))

DescMax == 5000
CommentsMin == 10

Footer ==
    << "Contact us for details! High Life Auto - Fort Madison", Comma, SP,
       "IA", Dot, SP, "Call/Text Matt 309-337-1049 or Miriam 309-267-7200",
       Dot >>

\* `${year} ${make} ${model}${trim ? ' ' + trim : ''}`.trim()
Cat_vehicleInfo(year, make, model, trimLevel) ==
    trim(year \o <<SP>> \o make \o <<SP>> \o model
         \o (IF trimLevel # <<>> THEN <<SP>> \o trimLevel ELSE <<>>))

\* details, as built by cleanDescription
Cat_details(mileage, extColor) ==
    (IF /\ mileage # <<>>
        /\ mileage # <<"1", "0", "0", "0">>
        /\ LET n == Cat_parseInt(mileage) IN ~n.nan /\ ~n.neg /\ n.val > 0
     THEN << Cat_miles(mileage) >> ELSE <<>>)
    \o (IF extColor # <<>> THEN << extColor \o <<SP, "exterior">> >> ELSE <<>>)

\* optionList.split(';').map(f => f.trim()).filter(f => f && f !== 'Available')
Cat_features(optionList) ==
    LET parts == split(optionList, Semicolon)
        trimmed == [k \in 1..Len(parts) |-> trim(parts[k])]
    IN SelectSeq(trimmed, LAMBDA f : f # <<>> /\ f # <<"Available">>)

\* cleanDescription(comments, year, make, model, trim, mileage, extColor, optionList)
Cat_cleanDescription(comments, year, make, model, trimLevel, mileage, extColor, optionList) ==
    LET vehicleInfo == Cat_vehicleInfo(year, make, model, trimLevel)
        details == Cat_details(mileage, extColor)
        desc1 ==
            IF comments = <<>> \/ TextLen(trim(comments)) < CommentsMin
            THEN vehicleInfo \o <<Dot, SP>> \o join(details, <<Dot, SP>>)
                 \o <<Dot, SP>> \o Footer
            ELSE LET body == trim(Cat_collapse(Cat_bullets(comments)))
                 IN vehicleInfo
                    \o (IF details # <<>>
                        THEN <<SP, "-", SP>> \o join(details, <<Comma, SP>>)
                        ELSE <<>>)
                    \o <<Dot, SP>> \o body
        features == Cat_features(optionList)
        desc2 ==
            IF optionList # <<>> /\ trim(optionList) # <<>> /\ features # <<>>
            THEN desc1 \o <<SP, Pipe, SP, "Features:", SP>>
                 \o join(features, <<Comma, SP>>)
            ELSE desc1
        desc3 == trim(Cat_collapse(Cat_stripNewlines(desc2)))
    IN IF TextLen(desc3) > DescMax
       THEN Cat_substring(desc3, DescMax) \o <<Dot, Dot, Dot>>
       ELSE desc3

SITE_URL == <<"https://highlifeauto.com">>

\* A header that lacks its last column.
FB_HEADERS_short ==
    << "id", "title", "description", "availability", "condition", "price",
       "link", "image_link", "brand", "google_product_category",
       "fb_product_category", "quantity_to_sell_on_facebook", "sale_price",
       "sale_price_effective_date", "item_group_id", "gender", "color",
       "size", "age_group", "material", "pattern", "shipping",
       "shipping_weight", "video[0].url", "video[0].tag[0]", "gtin",
       "product_tags[0]", "product_tags[1]" >>

FB_HEADERS ==
    << "id", "title", "description", "availability", "condition", "price",
       "link", "image_link", "brand", "google_product_category",
       "fb_product_category", "quantity_to_sell_on_facebook", "sale_price",
       "sale_price_effective_date", "item_group_id", "gender", "color",
       "size", "age_group", "material", "pattern", "shipping",
       "shipping_weight", "video[0].url", "video[0].tag[0]", "gtin",
       "product_tags[0]", "product_tags[1]", "style[0]" >>

\* The keys of the row object literal.
RowKeys ==
    { "id", "title", "description", "availability", "condition", "price",
      "link", "image_link", "brand", "google_product_category",
      "fb_product_category", "quantity_to_sell_on_facebook", "sale_price",
      "sale_price_effective_date", "item_group_id", "gender", "color",
      "size", "age_group", "material", "pattern", "shipping",
      "shipping_weight", "video[0].url", "video[0].tag[0]", "gtin",
      "product_tags[0]", "product_tags[1]", "style[0]" }

\* The column names the row loop reads.
ColumnNames ==
    { <<"Vehicle Vin">>, <<"Vehicle Make">>, <<"Vehicle Model">>,
      <<"Vehicle Trim Level">>, <<"Vehicle Year">>, <<"Vehicle Type">>,
      <<"Retail">>, <<"Image URL">>, <<"Stock Number">>, <<"Comments">>,
      <<"YouTube URL">>, <<"Exterior Color">>, <<"Mileage">>,
      <<"Option List">> }

\* raw.split(/\r?\n/)
splitLines(text) ==
    LET ps == split(text, LF)
    IN [k \in 1..Len(ps) |->
          IF k < Len(ps) /\ ps[k] # <<>> /\ ps[k][Len(ps[k])] = CR
          THEN SubSeq(ps[k], 1, Len(ps[k]) - 1)
          ELSE ps[k]]

\* headerCols.forEach((h, i) => { colIdx[unquote(h)] = i }): the index (from
\* 0) of the last header column of that name, -1 for undefined.
Cat_colIdx(headerCols) ==
    [name \in ColumnNames |->
        LET hits == {i \in 1..Len(headerCols) : Cat_unquote(headerCols[i]) = name}
        IN IF hits = {} THEN -1
           ELSE (CHOOSE i \in hits : \A j \in hits : j <= i) - 1]

\* get(row, colName)
Cat_get(colIdx, row, colName) ==
    LET idx == colIdx[colName]
    IN IF idx = -1 THEN <<>>
       ELSE Cat_unquote(IF idx + 1 <= Len(row) THEN row[idx + 1] ELSE <<>>)

\* images = imageUrlField ? imageUrlField.split('|').filter(u => u.trim()) : []
Cat_images(imageUrlField) ==
    IF imageUrlField = <<>> THEN <<>>
    ELSE SelectSeq(split(imageUrlField, Pipe), LAMBDA u : trim(u) # <<>>)

\* The skip test without the VIN.
Cat_noIdentity_noVin(make, model, vin) == make = <<>> \/ model = <<>>

\* if (!make || !model || !vin)
Cat_noIdentity(make, model, vin) == make = <<>> \/ model = <<>> \/ vin = <<>>

\* The values one pass of the row loop reads from a line.
Cat_fields(colIdx, line) ==
    LET cols == Cat_parseCSVLine(line)
        imageUrlField == Cat_get(colIdx, cols, <<"Image URL">>)
        images == Cat_images(imageUrlField)
    IN [vin |-> Cat_get(colIdx, cols, <<"Vehicle Vin">>),
        make |-> Cat_get(colIdx, cols, <<"Vehicle Make">>),
        model |-> Cat_get(colIdx, cols, <<"Vehicle Model">>),
        trimLevel |-> Cat_get(colIdx, cols, <<"Vehicle Trim Level">>),
        year |-> Cat_get(colIdx, cols, <<"Vehicle Year">>),
        type |-> Cat_get(colIdx, cols, <<"Vehicle Type">>),
        retail |-> Cat_cleanPrice(Cat_get(colIdx, cols, <<"Retail">>)),
        stockNum |-> Cat_get(colIdx, cols, <<"Stock Number">>),
        comments |-> Cat_get(colIdx, cols, <<"Comments">>),
        youtubeUrl |-> Cat_get(colIdx, cols, <<"YouTube URL">>),
        extColor |-> Cat_get(colIdx, cols, <<"Exterior Color">>),
        mileage |-> Cat_get(colIdx, cols, <<"Mileage">>),
        optionList |-> Cat_get(colIdx, cols, <<"Option List">>),
        mainImage |-> IF images # <<>> THEN images[1] ELSE <<>>]

\* The three skip tests of the row loop, in order: TRUE if one of them ends
\* the pass in skipped++; continue.
Cat_skips(f) ==
    \/ Cat_noIdentity(f.make, f.model, f.vin)
    \/ ~Cat_positive(f.retail)
    \/ f.mainImage = <<>>

\* The row object built from the values of a line that is not skipped.
Cat_row(f) ==
    [h \in RowKeys |->
        CASE h = "id" -> f.stockNum
          [] h = "title" -> Cat_vehicleInfo(f.year, f.make, f.model, f.trimLevel)
          [] h = "description" ->
                Cat_cleanDescription(f.comments, f.year, f.make, f.model,
                    f.trimLevel, f.mileage, f.extColor, f.optionList)
          [] h = "availability" -> <<"in stock">>
          [] h = "condition" -> <<"used">>
          [] h = "price" -> Cat_toFixed2(f.retail) \o <<SP, "USD">>
          [] h = "link" -> SITE_URL \o <<"/vehicle/">> \o f.stockNum
          [] h = "image_link" -> f.mainImage
          [] h = "brand" -> f.make
          [] h = "google_product_category" -> <<"Vehicles & Parts > Vehicles">>
          [] h = "fb_product_category" -> <<"vehicles">>
          [] h = "color" -> f.extColor
          [] h = "video[0].url" -> f.youtubeUrl
          [] h = "video[0].tag[0]" ->
                IF f.youtubeUrl # <<>> THEN <<"Test Drive">> ELSE <<>>
          [] h = "product_tags[0]" -> f.type
          [] h = "product_tags[1]" ->
                IF f.mileage # <<>> THEN Cat_miles(f.mileage) ELSE <<>>
          [] OTHER -> <<>>]

\* FB_HEADERS.map(h => csvEscape(row[h])).join(',')
Cat_dataLine(row) ==
    join([k \in 1..Len(FB_HEADERS) |-> Cat_csvEscape(row[FB_HEADERS[k]])], <<Comma>>)

\* csvContent = [headerLine, ...dataLines].join('\r\n') + '\r\n'
Cat_csvContent(outputRows) ==
    LET headerLine == join([k \in 1..Len(FB_HEADERS) |-> <<FB_HEADERS[k]>>], <<Comma>>)
        dataLines == [k \in 1..Len(outputRows) |-> Cat_dataLine(outputRows[k])]
    IN join(<<headerLine>> \o dataLines, <<CR, LF>>) \o <<CR, LF>>

\* Input files: a header line and at most MaxCatRows lines after it, every
\* line ended the same way.
MaxCatRows == 2

CatHeaderColumns ==
    << <<"Stock Number">>, <<Quote, "Vehicle Vin", Quote>>, <<"Vehicle Year">>,
       <<"Vehicle Make">>, <<"Vehicle Model">>, <<"Vehicle Trim Level">>,
       <<"Vehicle Type">>, <<"Retail">>, <<"Mileage">>, <<"Exterior Color">>,
       <<"Comments">>, <<"Option List">>, <<"Image URL">>, <<"YouTube URL">> >>

CatHeaders == { join(CatHeaderColumns, <<Comma>>) }

CatLine(r) ==
    join(<<r.stock, r.vin, r.year, r.make, r.model, r.trimLevel, r.type,
           r.retail, r.mileage, r.color, r.comments, r.options, r.image,
           r.youtube>>, <<Comma>>)

PlainRow ==
    [stock |-> <<"1">>, vin |-> <<"v">>, year |-> <<"1", "5">>, make |-> <<"R">>,
     model |-> <<"M">>, trimLevel |-> <<>>, type |-> <<"T">>,
     retail |-> <<"2", "5">>, mileage |-> <<"1", "2", "3", "4", "5">>,
     color |-> <<"k">>, comments |-> <<>>, options |-> <<>>,
     image |-> <<"u", Pipe, "w">>, youtube |-> <<>>]

\* Quoted fields holding commas, a lone carriage return, bullets, an option
\* list and blanks around the first image URL.
RichRow ==
    [stock |-> <<Quote, "2", Quote>>, vin |-> <<"v">>, year |-> <<"1", "5">>,
     make |-> <<Quote, "R", Comma, SP, "I", Quote>>, model |-> <<"M">>,
     trimLevel |-> <<"L">>, type |-> <<>>,
     retail |-> <<Quote, "$", "2", Comma, "5", "0", "0", Dot, "5", Quote>>,
     mileage |-> <<"9", "0">>, color |-> <<"k", CR, "k">>,
     comments |-> <<Quote, Star, SP, "a", SP, SP, "b", Comma, "c", "d", "e",
                    "f", "g", "h", Quote>>,
     options |-> <<"A", Semicolon, SP, "Available", Semicolon, "B">>,
     image |-> <<Quote, "u", SP, Pipe, "w", Quote>>, youtube |-> <<"y">>]

CatDataLines ==
    { CatLine(PlainRow),
      CatLine(RichRow),
      CatLine([PlainRow EXCEPT !.stock = <<"3">>, !.vin = <<>>]),
      CatLine([PlainRow EXCEPT !.stock = <<"4">>, !.make = <<SP>>]),
      join(<< <<"5">>, <<"v">>, <<"1", "5">>, <<"R">> >>, <<Comma>>),
      CatLine([PlainRow EXCEPT !.stock = <<"6">>,
                               !.retail = <<"$", "0", Dot, "0", "0">>]),
      CatLine([PlainRow EXCEPT !.stock = <<"7">>, !.retail = <<"a", "b", "c">>]),
      CatLine([PlainRow EXCEPT !.stock = <<"8">>, !.retail = <<"-", "5">>]),
      CatLine([PlainRow EXCEPT !.stock = <<"9">>, !.image = <<>>]),
      CatLine([PlainRow EXCEPT !.stock = <<"1", "0">>,
                               !.image = <<Pipe, SP, Pipe, "w">>]),
      CatLine([PlainRow EXCEPT !.stock = <<"1", "1">>,
                               !.image = <<Pipe, SP, Pipe>>]),
      <<SP>> }

CatInputs ==
    { join(<<h>> \o rows, eol) \o eol :
        h \in CatHeaders,
        rows \in UNION {[1..n -> CatDataLines] : n \in 0..MaxCatRows},
        eol \in LineEndings }

StartCat ==
    /\ cat_pc = "read"
    /\ cat_raw \in CatInputs
    /\ cat_lines = <<>>
    /\ cat_colIdx = <<>>
    /\ cat_i = 0
    /\ cat_outputRows = <<>>
    /\ cat_skipped = 0
    /\ cat_csvContent = <<>>
    /\ cat_outputFile = <<>>
    /\ cat_publicCopy = <<>>

IdleCat ==
    /\ cat_pc = "idle"
    /\ cat_raw = <<>>
    /\ cat_lines = <<>>
    /\ cat_colIdx = <<>>
    /\ cat_i = 0
    /\ cat_outputRows = <<>>
    /\ cat_skipped = 0
    /\ cat_csvContent = <<>>
    /\ cat_outputFile = <<>>
    /\ cat_publicCopy = <<>>

\* const lines = raw.split(/\r?\n/).filter(l => l.trim())
CatRead ==
    /\ cat_pc = "read"
    /\ cat_lines' = SelectSeq(splitLines(cat_raw), LAMBDA l : trim(l) # <<>>)
    /\ cat_pc' = "header"
    /\ UNCHANGED <<cat_raw, cat_colIdx, cat_i, cat_outputRows, cat_skipped,
                   cat_csvContent, cat_outputFile, cat_publicCopy,
                   vars_parse, vars_san, vars_val>>

\* if (lines.length < 2) process.exit(1)
CatNoData ==
    /\ cat_pc = "header"
    /\ Len(cat_lines) < 2
    /\ cat_pc' = "exit1"
    /\ UNCHANGED <<cat_raw, cat_lines, cat_colIdx, cat_i, cat_outputRows,
                   cat_skipped, cat_csvContent, cat_outputFile, cat_publicCopy,
                   vars_parse, vars_san, vars_val>>

\* headerCols, colIdx; the loop starts at i = 1.
CatHeader ==
    /\ cat_pc = "header"
    /\ Len(cat_lines) >= 2
    /\ cat_colIdx' = Cat_colIdx(Cat_parseCSVLine(cat_lines[1]))
    /\ cat_i' = 1
    /\ cat_pc' = "loop"
    /\ UNCHANGED <<cat_raw, cat_lines, cat_outputRows, cat_skipped,
                   cat_csvContent, cat_outputFile, cat_publicCopy,
                   vars_parse, vars_san, vars_val>>

\* A skipping pass that does not count the row.
CatSkipRow_uncounted ==
    /\ cat_pc = "loop"
    /\ cat_i < Len(cat_lines)
    /\ Cat_skips(Cat_fields(cat_colIdx, cat_lines[cat_i + 1]))
    /\ cat_i' = cat_i + 1
    /\ UNCHANGED <<cat_pc, cat_raw, cat_lines, cat_colIdx, cat_outputRows,
                   cat_skipped, cat_csvContent, cat_outputFile, cat_publicCopy,
                   vars_parse, vars_san, vars_val>>

\* One pass of the loop that ends in skipped++; continue.
CatSkipRow ==
    /\ cat_pc = "loop"
    /\ cat_i < Len(cat_lines)
    /\ Cat_skips(Cat_fields(cat_colIdx, cat_lines[cat_i + 1]))
    /\ cat_skipped' = cat_skipped + 1
    /\ cat_i' = cat_i + 1
    /\ UNCHANGED <<cat_pc, cat_raw, cat_lines, cat_colIdx, cat_outputRows,
                   cat_csvContent, cat_outputFile, cat_publicCopy,
                   vars_parse, vars_san, vars_val>>

\* One pass of the loop that ends in outputRows.push(row).
CatEmitRow ==
    /\ cat_pc = "loop"
    /\ cat_i < Len(cat_lines)
    /\ LET f == Cat_fields(cat_colIdx, cat_lines[cat_i + 1])
       IN /\ ~Cat_skips(f)
          /\ cat_outputRows' = Append(cat_outputRows, Cat_row(f))
    /\ cat_i' = cat_i + 1
    /\ UNCHANGED <<cat_pc, cat_raw, cat_lines, cat_colIdx, cat_skipped,
                   cat_csvContent, cat_outputFile, cat_publicCopy,
                   vars_parse, vars_san, vars_val>>

\* headerLine, dataLines, csvContent
CatFormat ==
    /\ cat_pc = "loop"
    /\ cat_i = Len(cat_lines)
    /\ cat_csvContent' = Cat_csvContent(cat_outputRows)
    /\ cat_pc' = "write"
    /\ UNCHANGED <<cat_raw, cat_lines, cat_colIdx, cat_i, cat_outputRows,
                   cat_skipped, cat_outputFile, cat_publicCopy,
                   vars_parse, vars_san, vars_val>>

\* fs.writeFileSync(outputFile, csvContent)
CatWrite ==
    /\ cat_pc = "write"
    /\ cat_outputFile' = cat_csvContent
    /\ cat_pc' = "copy"
    /\ UNCHANGED <<cat_raw, cat_lines, cat_colIdx, cat_i, cat_outputRows,
                   cat_skipped, cat_csvContent, cat_publicCopy,
                   vars_parse, vars_san, vars_val>>

\* try { fs.writeFileSync(publicCopy, csvContent) }
CatCopy ==
    /\ cat_pc = "copy"
    /\ cat_publicCopy' = cat_csvContent
    /\ cat_pc' = "done"
    /\ UNCHANGED <<cat_raw, cat_lines, cat_colIdx, cat_i, cat_outputRows,
                   cat_skipped, cat_csvContent, cat_outputFile,
                   vars_parse, vars_san, vars_val>>

\* catch (e): the copy could not be written.
CatCopyFails ==
    /\ cat_pc = "copy"
    /\ cat_pc' = "done"
    /\ UNCHANGED <<cat_raw, cat_lines, cat_colIdx, cat_i, cat_outputRows,
                   cat_skipped, cat_csvContent, cat_outputFile, cat_publicCopy,
                   vars_parse, vars_san, vars_val>>

NextCat ==
    \/ CatRead \/ CatNoData \/ CatHeader \/ CatSkipRow \/ CatEmitRow
    \/ CatFormat \/ CatWrite \/ CatCopy \/ CatCopyFails

\* A text with nothing but blanks in it.
Blank(s) == \A i \in 1..Len(s) : s[i] \in WhiteSpace

\* The non-blank lines of the converter's input: the header and the data rows.
CatInputLines == SelectSeq(SeparatedLines(cat_raw), LAMBDA l : ~Blank(l))

\* The column names of a header line, quotes and surrounding blanks taken off.
HeaderNames(header) ==
    LET f == FieldsOf(header)
    IN [c \in 1..Len(f) |-> trim(removeQuotes(f[c]))]

\* The fields of the data rows of the input, row by row.
RowFields(lines) == [k \in 1..(Len(lines) - 1) |-> FieldsOf(lines[k + 1])]

\* The value a data row holds in the column of that name: the field under
\* the header column of that name, its quotes and surrounding blanks taken
\* off; empty when the header or the row has no such column.
ColumnValue(names, fields, name) ==
    LET cols == {c \in 1..Len(names) : names[c] = name}
    IN IF cols = {} \/ Min(cols) > Len(fields) THEN <<>>
       ELSE trim(removeQuotes(fields[Min(cols)]))

\* The price of a retail value, every character but digits and dots taken
\* off, is greater than 0: its numeral (the text before a second dot) has a
\* digit other than 0.
PricePositive(value) ==
    LET stripped == SelectSeq(value, LAMBDA c : c \in Digits \cup {Dot})
        dots == {i \in 1..Len(stripped) : stripped[i] = Dot}
        numeral == IF Cardinality(dots) >= 2
                   THEN SubSeq(stripped, 1, Nth(dots, 2) - 1)
                   ELSE stripped
    IN \E i \in 1..Len(numeral) : numeral[i] \in Digits \ {"0"}

\* The URLs of a pipe-delimited list that are not empty (nor blank).
UrlsOf(value) == SelectSeq(split(value, Pipe), LAMBDA u : ~Blank(u))

\* The row has a Make, a Model and a VIN.
HasIdentity(names, fields) ==
    /\ ColumnValue(names, fields, <<"Vehicle Make">>) # <<>>
    /\ ColumnValue(names, fields, <<"Vehicle Model">>) # <<>>
    /\ ColumnValue(names, fields, <<"Vehicle Vin">>) # <<>>

\* The claim's condition for a data row to be emitted.
ShouldEmit(names, fields) ==
    /\ HasIdentity(names, fields)
    /\ PricePositive(ColumnValue(names, fields, <<"Retail">>))
    /\ UrlsOf(ColumnValue(names, fields, <<"Image URL">>)) # <<>>

CatLooping == cat_pc \in {"loop", "write", "copy", "done"}
CatWritten == cat_pc \in {"copy", "done"}

\* The records of a CSV text: the non-empty pieces between the line breaks
\* (CR, LF or CRLF) that lie outside quoted segments.
Records(text) ==
    LET breaks == Ascending({i \in 1..Len(text) :
                      /\ text[i] \in {CR, LF}
                      /\ Cardinality({j \in 1..(i - 1) : text[j] = Quote}) % 2 = 0},
                      Len(text))
        n == Len(breaks)
        bound(k) == IF k = 0 THEN 0 ELSE IF k = n + 1 THEN Len(text) + 1
                    ELSE breaks[k]
        pieces == [k \in 1..(n + 1) |->
                      SubSeq(text, bound(k - 1) + 1, bound(k) - 1)]
    IN SelectSeq(pieces, LAMBDA p : p # <<>>)

\* The value of an RFC 4180 field: the enclosing quotes taken off and every
\* doubled quote made one.
Unescape(field) ==
    IF Len(field) >= 2 /\ field[1] = Quote /\ field[Len(field)] = Quote
    THEN LET inner == SubSeq(field, 2, Len(field) - 1)
             second(j) ==
                 /\ inner[j] = Quote
                 /\ LET others == {k \in 1..(j - 1) : inner[k] # Quote}
                        start == IF others = {} THEN 0
                                 ELSE CHOOSE k \in others : \A m \in others : m <= k
                    IN (j - start) % 2 = 0
             kept == Ascending({j \in 1..Len(inner) : ~second(j)}, Len(inner))
         IN [k \in 1..Len(kept) |-> inner[kept[k]]]
    ELSE field

\* C1: the rows pushed to outputRows are, in order, the data rows gone
\* through so far whose Make, Model and VIN are not empty, whose Retail
\* price is greater than 0 and whose Image URL list holds a URL that is not
\* empty ("empty" as the code reads a value: nothing left once quotes and
\* surrounding blanks are taken off); every other row is left out; and the
\* image_link of an emitted row is the first such URL of its list.
C1_SkipPolicy ==
    CatLooping =>
        LET lines == CatInputLines
            names == HeaderNames(lines[1])
            processed == SubSeq(RowFields(lines), 1, cat_i - 1)
            expected == SelectSeq(processed, LAMBDA f : ShouldEmit(names, f))
        IN /\ Len(cat_outputRows) = Len(expected)
           /\ \A k \in 1..Len(expected) :
                 /\ cat_outputRows[k]["image_link"] =
                        UrlsOf(ColumnValue(names, expected[k], <<"Image URL">>))[1]
                 /\ cat_outputRows[k]["id"] =
                        ColumnValue(names, expected[k], <<"Stock Number">>)

\* The run is over; a row whose list starts with an empty and a blank URL
\* was emitted with the URL after them, and a row with its identity and an
\* image but no price above 0 was left out.
C1_Witness ==
    /\ cat_pc = "done"
    /\ Len(cat_outputRows) = 1
    /\ cat_outputRows[1]["image_link"] = <<"w">>
    /\ LET lines == CatInputLines
           names == HeaderNames(lines[1])
           rows == RowFields(lines)
       IN /\ Len(rows) = 2
          /\ \E k \in 1..2 :
                /\ split(ColumnValue(names, rows[k], <<"Image URL">>), Pipe)[1] = <<>>
                /\ ShouldEmit(names, rows[k])
          /\ \E k \in 1..2 :
                /\ HasIdentity(names, rows[k])
                /\ UrlsOf(ColumnValue(names, rows[k], <<"Image URL">>)) # <<>>
                /\ ~PricePositive(ColumnValue(names, rows[k], <<"Retail">>))

\* s is t with some of its elements left out, the others in t's order.
Subsequence(s, t) ==
    \E pick \in SUBSET (1..Len(t)) :
        /\ Cardinality(pick) = Len(s)
        /\ \A k \in 1..Len(s) : s[k] = t[Nth(pick, k)]

\* C5: every data row gone through so far has been counted once, as emitted
\* or as skipped; once the loop is over the two counts add up to the number
\* of data rows; the emitted rows come in the input's order; the output file
\* holds one line per emitted row after its header; and two data rows, one
\* valid and one without a Make, give 1 output row and a skip count of 1.
C5_Accounting ==
    /\ CatLooping => Len(cat_outputRows) + cat_skipped = cat_i - 1
    /\ cat_pc \in {"write", "copy", "done"} =>
          LET lines == CatInputLines
              names == HeaderNames(lines[1])
              rows == RowFields(lines)
          IN /\ Len(cat_outputRows) + cat_skipped = Len(rows)
             /\ Subsequence([k \in 1..Len(cat_outputRows) |-> cat_outputRows[k]["id"]],
                            [k \in 1..Len(rows) |->
                               ColumnValue(names, rows[k], <<"Stock Number">>)])
             /\ CatWritten =>
                   /\ Len(Records(cat_outputFile)) = 1 + Len(cat_outputRows)
                   /\ ( /\ Len(rows) = 2
                        /\ \E k \in 1..2 :
                              /\ ShouldEmit(names, rows[k])
                              /\ ColumnValue(names, rows[3 - k],
                                             <<"Vehicle Make">>) = <<>> )
                      => Len(cat_outputRows) = 1 /\ cat_skipped = 1

\* The run is over for an input of two data rows, the first without a Make
\* and the second valid: one row written, one skipped.
C5_Witness ==
    /\ cat_pc = "done"
    /\ Len(cat_outputRows) = 1
    /\ cat_skipped = 1
    /\ Len(Records(cat_outputFile)) = 2
    /\ LET lines == CatInputLines
           names == HeaderNames(lines[1])
           rows == RowFields(lines)
       IN /\ Len(rows) = 2
          /\ ColumnValue(names, rows[1], <<"Vehicle Make">>) = <<>>
          /\ ShouldEmit(names, rows[2])

\* C9 (as stated): the header of the output file has exactly 28 columns and
\* every emitted row has exactly 28 fields.
C9_TwentyEightColumns ==
    CatWritten =>
        LET recs == Records(cat_outputFile)
        IN \A r \in 1..Len(recs) : Len(FieldsOf(recs[r])) = 28

\* C9 (amended): the header of the output file has exactly 29 columns, and
\* every emitted row has exactly 29 fields, one per header column in header
\* order.
C9_TwentyNineColumns ==
    CatWritten =>
        LET recs == Records(cat_outputFile)
            header == FieldsOf(recs[1])
        IN /\ Len(header) = 29
           /\ \A c \in 1..Len(header) : header[c] = <<FB_HEADERS[c]>>
           /\ \A r \in 2..Len(recs) : Len(FieldsOf(recs[r])) = 29
           /\ \A k \in 1..Len(cat_outputRows) : DOMAIN cat_outputRows[k] = RowKeys

\* The output file has been written with two rows in it.
C9_Witness ==
    /\ CatWritten
    /\ Len(cat_outputRows) = 2
    /\ Len(Records(cat_outputFile)) = 3

\* The files the converter has written.
CatFiles == {f \in {cat_outputFile, cat_publicCopy} : f # <<>>}

\* C10: every file written holds the header and one record per emitted row;
\* each record, split at the commas outside quoted segments, has as many
\* fields as the header; and each field, unescaped, is the value computed
\* for the column.
C10_WellFormed ==
    \A file \in CatFiles :
        LET recs == Records(file)
            header == FieldsOf(recs[1])
        IN /\ Len(recs) = 1 + Len(cat_outputRows)
           /\ \A k \in 1..Len(cat_outputRows) :
                 LET fields == FieldsOf(recs[k + 1])
                 IN /\ Len(fields) = Len(header)
                    /\ \A c \in 1..Len(header) :
                          Unescape(fields[c]) = cat_outputRows[k][header[c][1]]

\* Both files have been written with a row whose brand holds a comma, whose
\* color holds a carriage return and whose mileage tag holds a comma.
C10_Witness ==
    /\ cat_pc = "done"
    /\ Cardinality({cat_outputFile, cat_publicCopy, <<>>}) = 2
    /\ \E k \in 1..Len(cat_outputRows) :
          /\ Count(cat_outputRows[k]["brand"], Comma) > 0
          /\ Count(cat_outputRows[k]["color"], CR) > 0
    /\ \E k \in 1..Len(cat_outputRows) :
          Count(cat_outputRows[k]["product_tags[1]"], Comma) > 0

(***************************************************************************)
(* cloud_valuation.cjs: the valuation enricher.                            *)
(***************************************************************************)

\* Column names the enricher reads or writes, one symbol each.
VehicleMake == <<"Vehicle Make">>
VehicleModel == <<"Vehicle Model">>

\* const valHeaders = [...]
valHeaders ==
    << <<"Market1 Low">>, <<"Market1 High">>,
       <<"Wholesale1 Low">>, <<"Wholesale1 High">> >>

\* The elements of a sequence.
Range(s) == {s[k] : k \in 1..Len(s)}

\* car[key] || "", row[h] || '': the property named key, the empty text when
\* the object has none or holds undefined.  (A car is a function from its
\* property names to their values.)
Val_prop(car, key) == IF key \in DOMAIN car THEN car[key] ELSE <<>>

\* car[key] = value
Val_set(car, key, value) ==
    [h \in DOMAIN car \cup {key} |-> IF h = key THEN value ELSE car[h]]

\* parseCSV: the header names, and one object per data line holding, for
\* each header name, the part at the index of the last header of that name
\* (forEach assigns in header order), '' when the line has no such part.
Val_parseCSV(text) ==
    LET lines == SelectSeq(splitLines(text), LAMBDA l : trim(l) # <<>>)
    IN IF Len(lines) = 0 THEN [headers |-> <<>>, rows |-> <<>>]
       ELSE LET hs == split(lines[1], Comma)
                headers == [k \in 1..Len(hs) |-> trim(removeQuotes(hs[k]))]
                obj(line) ==
                    LET parts == Val_rowParts(line)
                    IN [h \in Range(headers) |->
                          LET i == CHOOSE c \in 1..Len(headers) :
                                      /\ headers[c] = h
                                      /\ \A d \in 1..Len(headers) :
                                            headers[d] = h => d <= c
                          IN IF i <= Len(parts) THEN Val_clean(parts[i])
                             ELSE <<>>]
            IN [headers |-> headers,
                rows |-> [k \in 1..(Len(lines) - 1) |-> obj(lines[k + 1])]]

\* valHeaders.forEach(vh => { if (!allHeaders.includes(vh)) allHeaders.push(vh) })
Val_allHeaders(headers) ==
    headers \o SelectSeq(valHeaders, LAMBDA vh : vh \notin Range(headers))

\* The text of the JSON object the prompt asks for, as one symbol, and the
\* two markdown fences the code removes (three backquotes, written FENCE),
\* one symbol each.
JsonObject == "{wholesale_low,wholesale_high,market_low,market_high}"
FenceJson == "FENCEjson"
Fence == "FENCE"

\* What valuateCar returns: null, or the object parsed from the response.
ValNull ==
    [isNull |-> TRUE, market_low |-> <<>>, market_high |-> <<>>,
     wholesale_low |-> <<>>, wholesale_high |-> <<>>]
ValObject ==
    [isNull |-> FALSE, market_low |-> <<"3">>, market_high |-> <<"4">>,
     wholesale_low |-> <<"1">>, wholesale_high |-> <<"2">>]

\* text.replace(/FENCEjson/g, '').replace(/FENCE/g, '').trim()
Val_cleanJson(text) ==
    trim(SelectSeq(text, LAMBDA c : c \notin {FenceJson, Fence}))

\* JSON.parse: the object for the object's text, null for the text null, and
\* a SyntaxError for every other text of the model.
Val_JSONparse(t) ==
    IF t = <<JsonObject>> THEN [throws |-> FALSE, value |-> ValObject]
    ELSE IF t = <<"null">> THEN [throws |-> FALSE, value |-> ValNull]
    ELSE [throws |-> TRUE, value |-> ValNull]

\* if (!make || !modelName) return null: no call is made for such a car.
Val_makesCall(car) ==
    Val_prop(car, VehicleMake) # <<>> /\ Val_prop(car, VehicleModel) # <<>>

\* The try/catch of valuateCar with the outcome of the call: a rejected call
\* and a text JSON.parse throws on both end in the catch, which returns null.
Val_settled(outcome) ==
    IF outcome.rejected THEN ValNull
    ELSE LET parsed == Val_JSONparse(Val_cleanJson(outcome.text))
         IN IF parsed.throws THEN ValNull ELSE parsed.value

\* A loop body that sets the four columns whatever valuateCar returned.
Val_apply_always(car, vals) ==
    Val_set(Val_set(Val_set(Val_set(car,
        valHeaders[1], vals.market_low),
        valHeaders[2], vals.market_high),
        valHeaders[3], vals.wholesale_low),
        valHeaders[4], vals.wholesale_high)

\* if (vals) { car["Market1 Low"] = vals.market_low; ... }
Val_apply(car, vals) ==
    IF vals.isNull THEN car
    ELSE Val_set(Val_set(Val_set(Val_set(car,
             valHeaders[1], vals.market_low),
             valHeaders[2], vals.market_high),
             valHeaders[3], vals.wholesale_low),
             valHeaders[4], vals.wholesale_high)

\* The text written: the header names joined by commas, then one line per
\* result, every value between double quotes, the lines joined by LF.
Val_csvContent(allHeaders, results) ==
    join(<<join(allHeaders, <<Comma>>)>> \o
         [k \in 1..Len(results) |->
            join([c \in 1..Len(allHeaders) |->
                    <<Quote>> \o Val_prop(results[k], allHeaders[c]) \o <<Quote>>],
                 <<Comma>>)],
         <<LF>>)

MaxValRows == 2

\* Header lines: one without any valuation column, one that already carries
\* two of the four (one quoted, one after a blank).
ValHeaderLines ==
    { <<"Vehicle Make", Comma, Quote, "Vehicle Model", Quote, Comma, "Stock">>,
      <<"Vehicle Make", Comma, "Vehicle Model", Comma, "Stock", Comma,
        Quote, "Market1 High", Quote, Comma, SP, "Wholesale1 Low">> }

\* Data lines: a complete one, one without a Make, a short one whose Model is
\* blank, and one whose first field holds a comma between quotes.
ValDataLines ==
    { <<"F", Comma, "X", Comma, "7", Comma, "8", Comma, "9">>,
      <<Comma, "X", Comma, "6", Comma, "8", Comma, "9">>,
      <<Quote, "G", Quote, Comma, SP>>,
      <<Quote, "H", Comma, "J", Quote, Comma, "Y", Comma, "5">> }

ValInputs ==
    { <<>> } \cup
    { join(<<h>> \o rows, eol) \o eol :
        h \in ValHeaderLines,
        rows \in UNION {[1..n -> ValDataLines] : n \in 0..MaxValRows},
        eol \in LineEndings }

\* What a call of model.generateContent can end in: a rejection, or a
\* response with a text.
ValOutcomes ==
    { [kind |-> "success", rejected |-> FALSE, text |-> <<JsonObject>>],
      [kind |-> "success", rejected |-> FALSE,
       text |-> <<FenceJson, LF, JsonObject, LF, Fence>>],
      [kind |-> "network failure", rejected |-> TRUE, text |-> <<>>],
      [kind |-> "non-JSON response", rejected |-> FALSE,
       text |-> <<"S", "o", "r", "r", "y">>],
      [kind |-> "JSON parse error", rejected |-> FALSE,
       text |-> <<FenceJson, LF, "{", "w", "h">>],
      [kind |-> "null", rejected |-> FALSE, text |-> <<"null">>] }

\* An entry of the log of what the run did: a call issued for a row, the
\* call of a row settled (with the kind of its outcome), the pause after a
\* row elapsed, the output file written.  Rows count from 1.
Event(ev, row, kind) == [ev |-> ev, row |-> row, kind |-> kind]

StartVal ==
    /\ val_pc = "start"
    /\ \/ val_key = FALSE /\ val_exists = TRUE /\ val_raw = <<>>
       \/ val_key = TRUE /\ val_exists = FALSE /\ val_raw = <<>>
       \/ val_key = TRUE /\ val_exists = TRUE /\ val_raw \in ValInputs
    /\ val_headers = <<>>
    /\ val_allHeaders = <<>>
    /\ val_rows = <<>>
    /\ val_i = 0
    /\ val_vals = ValNull
    /\ val_results = <<>>
    /\ val_pending = {}
    /\ val_trace = <<>>
    /\ val_outputFile = <<>>
    /\ val_writes = 0

IdleVal ==
    /\ val_pc = "idle"
    /\ val_key = FALSE
    /\ val_exists = FALSE
    /\ val_raw = <<>>
    /\ val_headers = <<>>
    /\ val_allHeaders = <<>>
    /\ val_rows = <<>>
    /\ val_i = 0
    /\ val_vals = ValNull
    /\ val_results = <<>>
    /\ val_pending = {}
    /\ val_trace = <<>>
    /\ val_outputFile = <<>>
    /\ val_writes = 0

\* if (!API_KEY) process.exit(1)
ValNoKey ==
    /\ val_pc = "start"
    /\ ~val_key
    /\ val_pc' = "exit1"
    /\ UNCHANGED <<val_key, val_exists, val_raw, val_headers, val_allHeaders,
                   val_rows, val_i, val_vals, val_results, val_pending,
                   val_trace, val_outputFile, val_writes,
                   vars_parse, vars_san, vars_cat>>

\* if (!fs.existsSync(INPUT_FILE)) process.exit(1)
ValNoInput ==
    /\ val_pc = "start"
    /\ val_key
    /\ ~val_exists
    /\ val_pc' = "exit1"
    /\ UNCHANGED <<val_key, val_exists, val_raw, val_headers, val_allHeaders,
                   val_rows, val_i, val_vals, val_results, val_pending,
                   val_trace, val_outputFile, val_writes,
                   vars_parse, vars_san, vars_cat>>

\* const { headers, rows } = parseCSV(...); allHeaders; results = []; i = 0
ValLoad ==
    /\ val_pc = "start"
    /\ val_key
    /\ val_exists
    /\ LET parsed == Val_parseCSV(val_raw)
       IN /\ val_headers' = parsed.headers
          /\ val_rows' = parsed.rows
          /\ val_allHeaders' = Val_allHeaders(parsed.headers)
    /\ val_results' = <<>>
    /\ val_i' = 0
    /\ val_pc' = "loop"
    /\ UNCHANGED <<val_key, val_exists, val_raw, val_vals, val_pending,
                   val_trace, val_outputFile, val_writes,
                   vars_parse, vars_san, vars_cat>>

\* valuateCar(car) for a car without a Make or a Model: null, no call.
ValSkipCall ==
    /\ val_pc = "loop"
    /\ val_i < Len(val_rows)
    /\ ~Val_makesCall(val_rows[val_i + 1])
    /\ val_vals' = ValNull
    /\ val_pc' = "apply"
    /\ UNCHANGED <<val_key, val_exists, val_raw, val_headers, val_allHeaders,
                   val_rows, val_i, val_results, val_pending, val_trace,
                   val_outputFile, val_writes,
                   vars_parse, vars_san, vars_cat>>

\* valuateCar(car) up to await model.generateContent(prompt): the call is
\* issued and run() is suspended on it.
ValIssueCall ==
    /\ val_pc = "loop"
    /\ val_i < Len(val_rows)
    /\ Val_makesCall(val_rows[val_i + 1])
    /\ val_pending' = val_pending \cup {val_i + 1}
    /\ val_trace' = Append(val_trace, Event("call", val_i + 1, ""))
    /\ val_pc' = "await"
    /\ UNCHANGED <<val_key, val_exists, val_raw, val_headers, val_allHeaders,
                   val_rows, val_i, val_vals, val_results,
                   val_outputFile, val_writes,
                   vars_parse, vars_san, vars_cat>>

\* A loop that, when the call is rejected, goes through the same row again.
ValCallFails_retry ==
    /\ val_pc = "await"
    /\ \E o \in ValOutcomes :
          /\ o.rejected
          /\ val_trace' = Append(val_trace, Event("settle", val_i + 1, o.kind))
    /\ val_pending' = val_pending \ {val_i + 1}
    /\ val_pc' = "loop"
    /\ UNCHANGED <<val_key, val_exists, val_raw, val_headers, val_allHeaders,
                   val_rows, val_i, val_vals, val_results,
                   val_outputFile, val_writes,
                   vars_parse, vars_san, vars_cat>>

\* The call is rejected: the catch of valuateCar returns null.
ValCallFails ==
    /\ val_pc = "await"
    /\ \E o \in ValOutcomes :
          /\ o.rejected
          /\ val_vals' = Val_settled(o)
          /\ val_trace' = Append(val_trace, Event("settle", val_i + 1, o.kind))
    /\ val_pending' = val_pending \ {val_i + 1}
    /\ val_pc' = "apply"
    /\ UNCHANGED <<val_key, val_exists, val_raw, val_headers, val_allHeaders,
                   val_rows, val_i, val_results, val_outputFile, val_writes,
                   vars_parse, vars_san, vars_cat>>

\* The call resolves with a response: valuateCar returns what JSON.parse
\* makes of its text, or null from the catch.
ValCallReturns ==
    /\ val_pc = "await"
    /\ \E o \in ValOutcomes :
          /\ ~o.rejected
          /\ val_vals' = Val_settled(o)
          /\ val_trace' = Append(val_trace, Event("settle", val_i + 1, o.kind))
    /\ val_pending' = val_pending \ {val_i + 1}
    /\ val_pc' = "apply"
    /\ UNCHANGED <<val_key, val_exists, val_raw, val_headers, val_allHeaders,
                   val_rows, val_i, val_results, val_outputFile, val_writes,
                   vars_parse, vars_san, vars_cat>>

\* if (vals) { ... }  results.push(car), car being rows[i] itself; run() is
\* then suspended on the 1000 ms timer.
ValApply ==
    /\ val_pc = "apply"
    /\ LET car == Val_apply(val_rows[val_i + 1], val_vals)
       IN /\ val_rows' = [val_rows EXCEPT ![val_i + 1] = car]
          /\ val_results' = Append(val_results, car)
    /\ val_pc' = "pause"
    /\ UNCHANGED <<val_key, val_exists, val_raw, val_headers, val_allHeaders,
                   val_i, val_vals, val_pending, val_trace,
                   val_outputFile, val_writes,
                   vars_parse, vars_san, vars_cat>>

\* The timer fires: i++
ValPause ==
    /\ val_pc = "pause"
    /\ val_trace' = Append(val_trace, Event("pause", val_i + 1, ""))
    /\ val_i' = val_i + 1
    /\ val_pc' = "loop"
    /\ UNCHANGED <<val_key, val_exists, val_raw, val_headers, val_allHeaders,
                   val_rows, val_vals, val_results, val_pending,
                   val_outputFile, val_writes,
                   vars_parse, vars_san, vars_cat>>

\* The loop is over: fs.writeFileSync(OUTPUT_FILE, csvContent)
ValWrite ==
    /\ val_pc = "loop"
    /\ ~(val_i < Len(val_rows))
    /\ val_outputFile' = Val_csvContent(val_allHeaders, val_results)
    /\ val_writes' = val_writes + 1
    /\ val_trace' = Append(val_trace, Event("write", 0, ""))
    /\ val_pc' = "done"
    /\ UNCHANGED <<val_key, val_exists, val_raw, val_headers, val_allHeaders,
                   val_rows, val_i, val_vals, val_results, val_pending,
                   vars_parse, vars_san, vars_cat>>

NextVal ==
    \/ ValNoKey \/ ValNoInput \/ ValLoad \/ ValSkipCall \/ ValIssueCall
    \/ ValCallFails \/ ValCallReturns \/ ValApply \/ ValPause \/ ValWrite

\* The non-blank lines of the enricher's input: the header and the data rows.
ValInputLines == SelectSeq(SeparatedLines(val_raw), LAMBDA l : ~Blank(l))

\* The values of a line as the enricher reads them: the parts between its
\* commas, quotes and surrounding blanks taken off.
NaiveValues(line) ==
    LET parts == split(line, Comma)
    IN [c \in 1..Len(parts) |-> trim(removeQuotes(parts[c]))]

\* The value of a line under the header column of that name, empty when
\* there is none.
NaiveValue(names, values, name) ==
    LET cols == {c \in 1..Len(names) : names[c] = name /\ c <= Len(values)}
    IN IF cols = {} THEN <<>> ELSE values[Min(cols)]

\* The call made for row k ended in something other than a success.
ValFailed(k) ==
    \E p \in 1..Len(val_trace) :
        /\ val_trace[p].ev = "settle"
        /\ val_trace[p].row = k
        /\ val_trace[p].kind # "success"

\* The loop is at the start of an iteration with a row still to go through.
ValRowsLeft ==
    /\ val_pc = "loop"
    /\ LET lines == ValInputLines
       IN lines # <<>> /\ val_i < Len(lines) - 1

\* C4: whatever the calls end in, the run is at one of its steps, never
\* aborted; inside the loop it always has a next step; once the call of a row
\* has settled, the row is about to be pushed or has been pushed; and at the
\* end the output holds the header and then one record per input row,
\* in input order, each with one field per output column; every column that
\* is not a valuation column holds the row's original value (as the enricher
\* reads a line: split at its commas); and for a row whose call failed, or
\* whose Make or Model is empty, every input column holds its original value
\* and every added valuation column is blank.
C4_FailureHandling ==
    /\ val_pc \in {"start", "loop", "await", "apply", "pause", "done", "exit1"}
    /\ (val_pc \in {"await", "apply", "pause"} \/ ValRowsLeft)
          => \/ ENABLED ValSkipCall
             \/ ENABLED ValIssueCall
             \/ ENABLED ValCallFails
             \/ ENABLED ValCallReturns
             \/ ENABLED ValApply
             \/ ENABLED ValPause
    /\ \A p \in 1..Len(val_trace) :
          val_trace[p].ev = "settle" =>
             \/ val_pc = "apply" /\ val_i + 1 = val_trace[p].row
             \/ Len(val_results) >= val_trace[p].row
    /\ val_pc = "done" =>
          LET lines == ValInputLines
              names == IF lines = <<>> THEN <<>> ELSE NaiveValues(lines[1])
              recs == Records(val_outputFile)
              outHeader == FieldsOf(recs[1])
          IN /\ Len(recs) = IF lines = <<>> THEN 1 ELSE Len(lines)
             /\ SubSeq(outHeader, 1, Len(names)) = names
             /\ \A k \in 1..(Len(recs) - 1) :
                   LET values == NaiveValues(lines[k + 1])
                       original(c) ==
                           IF c <= Len(names) /\ c <= Len(values)
                           THEN values[c] ELSE <<>>
                       unmodified ==
                           \/ ValFailed(k)
                           \/ NaiveValue(names, values, VehicleMake) = <<>>
                           \/ NaiveValue(names, values, VehicleModel) = <<>>
                       out == FieldsOf(recs[k + 1])
                   IN /\ Len(out) = Len(outHeader)
                      /\ \A c \in 1..Len(out) :
                            (unmodified \/ outHeader[c] \notin Range(valHeaders))
                               => Unescape(out[c]) = original(c)

\* The run is over for an input of three columns and two rows, the first
\* with a call that failed and the second without a Make: both are written
\* with their three values and four blank valuation columns.
C4_Witness ==
    /\ val_pc = "done"
    /\ LET lines == ValInputLines
           recs == Records(val_outputFile)
       IN /\ Len(lines) = 3
          /\ Len(NaiveValues(lines[1])) = 3
          /\ ValFailed(1)
          /\ NaiveValues(lines[3])[1] = <<>>
          /\ Len(recs) = 3
          /\ \A k \in 2..3 :
                /\ Len(FieldsOf(recs[k])) = 7
                /\ \A c \in 4..7 : FieldsOf(recs[k])[c] = <<Quote, Quote>>
          /\ FieldsOf(recs[2])[1] # <<Quote, Quote>>

\* C7: the calls are issued in row order, at most one per row; at most one
\* call is outstanding; when the call for a row is issued, the pause after
\* every earlier row has elapsed and the call of every earlier row has
\* settled; and the output file is written at most once, as the last thing
\* the run does, after the pause of every row, and once in a finished run.
C7_Sequencing ==
    LET lines == ValInputLines
        nrows == IF lines = <<>> THEN 0 ELSE Len(lines) - 1
        n == Len(val_trace)
        is(p, ev, row) == val_trace[p].ev = ev /\ val_trace[p].row = row
        writes == {p \in 1..n : val_trace[p].ev = "write"}
    IN /\ Cardinality(val_pending) <= 1
       /\ \A p \in 1..n : \A q \in (p + 1)..n :
             (val_trace[p].ev = "call" /\ val_trace[q].ev = "call")
                => val_trace[p].row < val_trace[q].row
       /\ \A q \in 1..n :
             val_trace[q].ev = "call" =>
                \A j \in 1..(val_trace[q].row - 1) :
                   /\ \E p \in 1..(q - 1) : is(p, "pause", j)
                   /\ \A p \in 1..(q - 1) :
                         is(p, "call", j) =>
                            \E s \in (p + 1)..(q - 1) : is(s, "settle", j)
       /\ \A p \in 1..n :
             val_trace[p].ev = "call" /\ val_trace[p].row \notin val_pending
                => \E s \in (p + 1)..n : is(s, "settle", val_trace[p].row)
       /\ Cardinality(writes) = val_writes
       /\ val_writes <= 1
       /\ val_writes = 1 =>
             /\ val_trace[n].ev = "write"
             /\ val_pending = {}
             /\ \A j \in 1..nrows : \E p \in 1..(n - 1) : is(p, "pause", j)
       /\ val_pc = "done" => val_writes = 1

\* The run is over; two calls were made, the first of them failed, and the
\* file was written once.
C7_Witness ==
    /\ val_pc = "done"
    /\ val_writes = 1
    /\ Cardinality({p \in 1..Len(val_trace) : val_trace[p].ev = "call"}) = 2
    /\ ValFailed(1)

(***************************************************************************)
(* Specifications.                                                         *)
(***************************************************************************)
InitParse == StartParse /\ IdleSan /\ IdleCat /\ IdleVal
InitSan == IdleParse /\ StartSan /\ IdleCat /\ IdleVal
InitCat == IdleParse /\ IdleSan /\ StartCat /\ IdleVal
InitVal == IdleParse /\ IdleSan /\ IdleCat /\ StartVal

SpecParse == InitParse /\ [][NextParse]_vars
SpecSan == InitSan /\ [][NextSan]_vars
SpecCat == InitCat /\ [][NextCat]_vars
SpecVal == InitVal /\ [][NextVal]_vars

Init == InitParse \/ InitSan \/ InitCat \/ InitVal
Next == NextParse \/ NextSan \/ NextCat \/ NextVal
Spec == Init /\ [][Next]_vars

====
